---- MODULE Spec2Model ----
(***************************************************************************)
(* Model of runtime/vm/runtime_entry_riscv.cc: the RISC-V bridge between   *)
(* generated code and the VM's runtime entries.                            *)
(*                                                                         *)
(*   RuntimeEntry::GetEntryPoint   the entry point resolver                *)
(*   RuntimeEntry::CallInternal    the call-site emitter                   *)
(*                                                                         *)
(* Three specifications share the variables:                               *)
(*   Spec      resolutions of the descriptors (GetEntryPoint)              *)
(*   SpecEmit  emission of call sites into an assembler buffer             *)
(*   SpecRun   emission, then threads executing the emitted sequences      *)
(***************************************************************************)
EXTENDS Integers, Sequences, FiniteSets

VARIABLES
  mode,          \* build configuration: is USING_SIMULATOR defined
  debug,         \* build configuration: is DEBUG defined (ASSERT is compiled in)
  entries,       \* the runtime entry table: entry id -> descriptor
  status,        \* "running", or "aborted" once an ASSERT of a DEBUG build failed
  call,          \* the invocation made last: operation, entry, argument count
  redirections,  \* the simulator's redirections, indexed by handle
  targets,       \* entry id -> the entry points GetEntryPoint has returned for it
  assembler,     \* the assembler's buffer: the instructions emitted so far
  sites,         \* the call sites emitted so far, with their place in the buffer
  pc,            \* thread -> index of its next instruction, 0 outside the routine
  regs,          \* thread -> register -> value
  mem,           \* thread -> offset in its Thread object -> value
  inside         \* thread -> the callee it is in, or Managed

vars == <<mode, debug, entries, status, call, redirections, targets,
          assembler, sites, pc, regs, mem, inside>>

resolverVars == <<redirections, targets>>
emitterVars == <<assembler, sites>>
threadVars == <<pc, regs, mem, inside>>

(***************************************************************************)
(* Bounds.                                                                 *)
(***************************************************************************)
MaxArgs == 5
MaxRedirections == 3
MaxSites == 2
MaxRunSites == 1
NumThreads == 2

ArgCounts == -1 .. MaxArgs
Threads == 1 .. NumThreads

(***************************************************************************)
(* Values.  Addresses, tags, handles and integers are kept apart by the    *)
(* space they live in, so that no two of them are equal by accident.       *)
(***************************************************************************)
Val(space, ref) == [space |-> space, ref |-> ref]

NoValue == Val("none", 0)
IntValue(n) == Val("int", n)

\* VMTag::kDartTagId, the tag of a thread executing generated code.
kDartTagId == Val("vmtag", 0)

\* Simulator::CallKind
kRuntimeCall == "kRuntimeCall"
kLeafRuntimeCall == "kLeafRuntimeCall"
kLeafFloatRuntimeCall == "kLeafFloatRuntimeCall"

(***************************************************************************)
(* The runtime entry table.  Alloc and Sine are fixed; the third entry is  *)
(* an arbitrary descriptor, drawn in Init.  One descriptor per native      *)
(* function: the function pointer is the entry's own.                      *)
(***************************************************************************)
Alloc == 1
Sine == 2
Probe == 3
EntryIds == {Alloc, Sine, Probe}

FunctionOf(id) == Val("native", id)

RuntimeEntry(id, argc, leaf, float) ==
  [function |-> FunctionOf(id), argument_count |-> argc,
   is_leaf |-> leaf, is_float |-> float]

Descriptors(id) ==
  { RuntimeEntry(id, argc, leaf, float) :
      argc \in ArgCounts, leaf \in BOOLEAN, float \in BOOLEAN }

EntryTable(probe) ==
  [id \in EntryIds |->
     CASE id = Alloc -> RuntimeEntry(Alloc, 2, FALSE, FALSE)
       [] id = Sine -> RuntimeEntry(Sine, 1, TRUE, TRUE)
       [] OTHER -> probe]

Modes == {"normal", "simulator"}

(***************************************************************************)
(* RuntimeEntry::GetEntryPoint                                             *)
(***************************************************************************)
\* ASSERT(condition): checked in a DEBUG build, where its failure is fatal;
\* compiled out of any other build, where it holds whatever the condition.
Asserted(condition) == debug => condition

\* ASSERT(argument_count() >= 0);
ArgumentCountAssert(d) == d.argument_count >= 0

\* A mutant of LeafBudgetAssert: the budget is demanded of every descriptor.
LeafBudgetAssertAllEntries(d) ==
  \/ (~d.is_float /\ d.argument_count <= 4)
  \/ d.argument_count <= 2

\* ASSERT(!is_leaf() || (!is_float() && (argument_count() <= 4)) ||
\*        (argument_count() <= 2));
LeafBudgetAssert(d) ==
  \/ ~d.is_leaf
  \/ (~d.is_float /\ d.argument_count <= 4)
  \/ d.argument_count <= 2

\* A mutant of CallKind: is_float is looked at before is_leaf.
CallKindFloatFirst(d) ==
  IF d.is_float THEN kLeafFloatRuntimeCall
  ELSE IF d.is_leaf THEN kLeafRuntimeCall ELSE kRuntimeCall

\* is_leaf() ? (is_float() ? kLeafFloatRuntimeCall : kLeafRuntimeCall)
\*           : kRuntimeCall
CallKind(d) ==
  IF d.is_leaf
  THEN (IF d.is_float THEN kLeafFloatRuntimeCall ELSE kLeafRuntimeCall)
  ELSE kRuntimeCall

Redirection(external_function, call_kind, argument_count) ==
  [external_function |-> external_function, call_kind |-> call_kind,
   argument_count |-> argument_count]

NoRedirection == Redirection(NoValue, "none", 0)

HandleOf(h) == Val("redirection", h)

\* Simulator::RedirectExternalReference: the handles it may return for a
\* request.  Whether a redirection is cached or made anew is the simulator's
\* choice: an existing redirection of the same request, or the next free one.
RedirectExternalReference(request) ==
  { h \in 1 .. Len(redirections) : redirections[h] = request }
    \cup { h \in {Len(redirections) + 1} : h <= MaxRedirections }

Invocation(op, id, argc, request, entry) ==
  [op |-> op, id |-> id, argument_count |-> argc,
   request |-> request, entry |-> entry, before |-> Len(assembler)]

\* A mutant of GetEntryPoint: the computed entry is written back into the
\* descriptor, to save the redirection the next time.
GetEntryPointWriteBack(id) ==
  LET d == entries[id]
      entry == d.function
      request == Redirection(entry, CallKind(d), d.argument_count)
  IN /\ status = "running"
     /\ IF mode = "normal"
        THEN /\ call' = Invocation("GetEntryPoint", id, d.argument_count,
                                   NoRedirection, entry)
             /\ targets' = [targets EXCEPT ![id] = @ \cup {entry}]
             /\ UNCHANGED <<status, redirections, entries>>
        ELSE IF ~Asserted(ArgumentCountAssert(d)) \/ ~Asserted(LeafBudgetAssert(d))
        THEN /\ status' = "aborted"
             /\ call' = Invocation("GetEntryPoint", id, d.argument_count,
                                   NoRedirection, NoValue)
             /\ UNCHANGED <<redirections, targets, entries>>
        ELSE \E h \in RedirectExternalReference(request) :
               /\ redirections' =
                    IF h > Len(redirections)
                    THEN Append(redirections, request) ELSE redirections
               /\ call' = Invocation("GetEntryPoint", id, d.argument_count,
                                     request, HandleOf(h))
               /\ targets' = [targets EXCEPT ![id] = @ \cup {HandleOf(h)}]
               /\ entries' = [entries EXCEPT ![id].function = HandleOf(h)]
               /\ UNCHANGED status
     /\ UNCHANGED <<mode, debug, emitterVars, threadVars>>

GetEntryPoint(id) ==
  LET d == entries[id]
      \* uword entry = reinterpret_cast<uword>(function());
      entry == d.function
      request == Redirection(entry, CallKind(d), d.argument_count)
  IN /\ status = "running"
     /\ IF mode = "normal"
        THEN \* return entry;
             /\ call' = Invocation("GetEntryPoint", id, d.argument_count,
                                   NoRedirection, entry)
             /\ targets' = [targets EXCEPT ![id] = @ \cup {entry}]
             /\ UNCHANGED <<status, redirections>>
        ELSE IF ~Asserted(ArgumentCountAssert(d)) \/ ~Asserted(LeafBudgetAssert(d))
        THEN \* a failed ASSERT of a DEBUG build is fatal
             /\ status' = "aborted"
             /\ call' = Invocation("GetEntryPoint", id, d.argument_count,
                                   NoRedirection, NoValue)
             /\ UNCHANGED <<redirections, targets>>
        ELSE \* entry = Simulator::RedirectExternalReference(entry, call_kind,
             \*                                             argument_count());
             \E h \in RedirectExternalReference(request) :
               /\ redirections' =
                    IF h > Len(redirections)
                    THEN Append(redirections, request) ELSE redirections
               /\ call' = Invocation("GetEntryPoint", id, d.argument_count,
                                     request, HandleOf(h))
               /\ targets' = [targets EXCEPT ![id] = @ \cup {HandleOf(h)}]
               /\ UNCHANGED status
     /\ UNCHANGED <<mode, debug, entries, emitterVars, threadVars>>

(***************************************************************************)
(* The assembler.  CallInternal emits through these; the buffer keeps what *)
(* was emitted, one element per call on the assembler.                     *)
(***************************************************************************)
TMP2 == "TMP2"
T4 == "T4"
T5 == "T5"
SP == "SP"
RA == "RA"
PP == "PP"
THR == "THR"
NULL_REG == "NULL_REG"
WRITE_BARRIER_MASK == "WRITE_BARRIER_MASK"
DISPATCH_TABLE_REG == "DISPATCH_TABLE_REG"
NoRegister == "none"

Registers ==
  {TMP2, T4, T5, SP, RA, PP, THR, NULL_REG, WRITE_BARRIER_MASK,
   DISPATCH_TABLE_REG}

\* COMPILE_ASSERT(IsCalleeSavedRegister(..)): a build in which one of these
\* is not callee-saved does not compile.
CalleeSavedRoles == {THR, NULL_REG, WRITE_BARRIER_MASK, DISPATCH_TABLE_REG}

\* Thread::OffsetFromThread(runtime_entry), Thread::vm_tag_offset()
OffsetFromThread(id) == Val("entry_point_offset", id)
vm_tag_offset == Val("vm_tag_offset", 0)

Address(base, offset) == [base |-> base, offset |-> offset]

Instr(op, reg, address, imm) ==
  [op |-> op, reg |-> reg, base |-> address.base, offset |-> address.offset,
   imm |-> imm]

NoAddress == Address(NoRegister, NoValue)

lx(rd, address) == Instr("lx", rd, address, NoValue)
sx(rs, address) == Instr("sx", rs, address, NoValue)
jalr(rs) == Instr("jalr", rs, NoAddress, NoValue)
li(rd, imm) == Instr("li", rd, NoAddress, IntValue(imm))
LoadImmediate(rd, imm) == Instr("LoadImmediate", rd, NoAddress, imm)
ReserveAlignedFrameSpace(frame_space) ==
  Instr("ReserveAlignedFrameSpace", NoRegister, NoAddress, IntValue(frame_space))
JumpAndLinkToRuntime == Instr("JumpAndLinkToRuntime", NoRegister, NoAddress, NoValue)

(***************************************************************************)
(* RuntimeEntry::CallInternal                                              *)
(***************************************************************************)
\* A mutant of LeafSequence: the tag is stored before the entry is loaded.
LeafSequenceStoreBeforeLoad(id) ==
  << sx(TMP2, Address(THR, vm_tag_offset)),
     lx(TMP2, Address(THR, OffsetFromThread(id))),
     ReserveAlignedFrameSpace(0),
     jalr(TMP2),
     LoadImmediate(TMP2, kDartTagId),
     sx(TMP2, Address(THR, vm_tag_offset)) >>

\* A mutant of LeafSequence: the tag is not restored after the call.
LeafSequenceNoRestore(id) ==
  << lx(TMP2, Address(THR, OffsetFromThread(id))),
     sx(TMP2, Address(THR, vm_tag_offset)),
     ReserveAlignedFrameSpace(0),
     jalr(TMP2) >>

\* The leaf path, lines 57-63.
LeafSequence(id) ==
  << lx(TMP2, Address(THR, OffsetFromThread(id))),
     sx(TMP2, Address(THR, vm_tag_offset)),
     ReserveAlignedFrameSpace(0),
     jalr(TMP2),
     LoadImmediate(TMP2, kDartTagId),
     sx(TMP2, Address(THR, vm_tag_offset)) >>

\* A mutant of NonLeafSequence: the argument count is loaded first.
NonLeafSequenceCountFirst(id, argument_count) ==
  << li(T4, argument_count),
     lx(T5, Address(THR, OffsetFromThread(id))),
     JumpAndLinkToRuntime >>

\* A mutant of NonLeafSequence: T4 gets the descriptor's argument count.
NonLeafSequenceDeclaredCount(id, argument_count) ==
  << lx(T5, Address(THR, OffsetFromThread(id))),
     li(T4, entries[id].argument_count),
     JumpAndLinkToRuntime >>

\* A mutant of NonLeafSequence: the argument count goes to a role register.
NonLeafSequenceIntoRole(id, argument_count) ==
  << lx(T5, Address(THR, OffsetFromThread(id))),
     li(WRITE_BARRIER_MASK, argument_count),
     JumpAndLinkToRuntime >>

\* The non-leaf path, lines 73-75.
NonLeafSequence(id, argument_count) ==
  << lx(T5, Address(THR, OffsetFromThread(id))),
     li(T4, argument_count),
     JumpAndLinkToRuntime >>

\* A mutant of LeafArityAssert: fewer arguments than declared are let through.
LeafArityAssertAtMost(d, argument_count) == argument_count <= d.argument_count

\* A mutant of LeafArityAssert: the budget of the leaf call is asserted too.
LeafArityAssertAndBudget(d, argument_count) ==
  argument_count = d.argument_count /\ LeafBudgetAssert(d)

\* ASSERT(argument_count == runtime_entry->argument_count());
LeafArityAssert(d, argument_count) == argument_count = d.argument_count

CallSite(id, argument_count, code) ==
  [entry |-> id, argument_count |-> argument_count,
   first |-> Len(assembler) + 1, last |-> Len(assembler) + Len(code)]

Emit(id, argument_count, code) ==
  /\ assembler' = assembler \o code
  /\ sites' = Append(sites, CallSite(id, argument_count, code))

CallInternal(id, argument_count) ==
  LET runtime_entry == entries[id]
  IN /\ status = "running"
     /\ call' = Invocation("CallInternal", id, argument_count,
                           NoRedirection, NoValue)
     /\ IF runtime_entry.is_leaf
        THEN IF ~Asserted(LeafArityAssert(runtime_entry, argument_count))
             THEN /\ status' = "aborted"
                  /\ UNCHANGED emitterVars
             ELSE /\ Emit(id, argument_count, LeafSequence(id))
                  /\ UNCHANGED status
        ELSE /\ Emit(id, argument_count, NonLeafSequence(id, argument_count))
             /\ UNCHANGED status
     /\ UNCHANGED <<mode, debug, entries, resolverVars, threadVars>>

(***************************************************************************)
(* Initial states.  The table is registered before anything runs; every    *)
(* thread starts in generated code, outside the routine, with its role     *)
(* registers seeded and its Thread object filled in.                       *)
(***************************************************************************)
Managed == [kind |-> "managed", target |-> NoValue, argument_count |-> NoValue,
            return_to |-> 0]

\* The entry point a thread caches for an entry: what GetEntryPoint returns
\* for it, the function itself or, under the simulator, a redirection of it.
CachedEntryPoint(id) ==
  IF mode = "normal" THEN entries[id].function ELSE HandleOf(id)

ThreadObject(t) ==
  [o \in {vm_tag_offset} \cup {OffsetFromThread(id) : id \in EntryIds} |->
     IF o = vm_tag_offset THEN kDartTagId ELSE CachedEntryPoint(o.ref)]

Seeded(t) ==
  [r \in Registers |->
     CASE r = THR -> Val("thread", t)
       [] r = SP -> Val("stack", 1)
       [] r \in {NULL_REG, WRITE_BARRIER_MASK, DISPATCH_TABLE_REG, PP} -> Val(r, 0)
       [] OTHER -> NoValue]

InitTable ==
  /\ mode \in Modes
  /\ debug \in BOOLEAN
  /\ \E probe \in Descriptors(Probe) : entries = EntryTable(probe)
  /\ status = "running"
  /\ redirections = << >>
  /\ targets = [id \in EntryIds |-> {}]
  /\ assembler = << >>
  /\ sites = << >>
  /\ call = Invocation("none", Probe, 0, NoRedirection, NoValue)

InitThreads ==
  /\ pc = [t \in Threads |-> 0]
  /\ regs = [t \in Threads |-> Seeded(t)]
  /\ mem = [t \in Threads |-> ThreadObject(t)]
  /\ inside = [t \in Threads |-> Managed]

Init == InitTable /\ InitThreads

Next == \E id \in EntryIds : GetEntryPoint(id)

Spec == Init /\ [][Next]_vars

NextEmit ==
  /\ Len(sites) < MaxSites
  /\ \E id \in EntryIds, n \in ArgCounts : CallInternal(id, n)

SpecEmit == Init /\ [][NextEmit]_vars

(***************************************************************************)
(* Execution of the emitted sequences.  A thread enters the routine, runs  *)
(* its instructions in order and leaves it; while it is in a callee (the   *)
(* native function of a leaf call, the runtime-call stub of a non-leaf     *)
(* call) it executes none of them.                                         *)
(***************************************************************************)
\* What a register the callee need not preserve holds after the call: the
\* value it held before, or any other.  It is equal to no known value.
Unspecified == Val("unspecified", 0)

\* SP rounded down to the ABI's stack alignment.
AlignedDown(sp) == Val(sp.space, 0)

Callee(kind, target, argument_count, return_to) ==
  [kind |-> kind, target |-> target, argument_count |-> argument_count,
   return_to |-> return_to]

\* The registers, memory and callee of thread t after instruction i.
Execute(t, i) ==
  LET r == regs[t]
      at == r[i.base].ref
      next == pc[t] + 1
  IN CASE i.op = "lx" ->
            [regs |-> [r EXCEPT ![i.reg] = mem[at][i.offset]],
             mem |-> mem, inside |-> Managed, pc |-> next]
       [] i.op = "sx" ->
            [regs |-> r,
             mem |-> [mem EXCEPT ![at][i.offset] = r[i.reg]],
             inside |-> Managed, pc |-> next]
       [] i.op \in {"li", "LoadImmediate"} ->
            [regs |-> [r EXCEPT ![i.reg] = i.imm],
             mem |-> mem, inside |-> Managed, pc |-> next]
       [] i.op = "ReserveAlignedFrameSpace" ->
            [regs |-> [r EXCEPT ![SP] = AlignedDown(@)],
             mem |-> mem, inside |-> Managed, pc |-> next]
       [] i.op = "jalr" ->
            [regs |-> [r EXCEPT ![RA] = Val("code", next)],
             mem |-> mem,
             inside |-> Callee("native", r[i.reg], NoValue, next),
             pc |-> pc[t]]
       [] i.op = "JumpAndLinkToRuntime" ->
            [regs |-> [r EXCEPT ![RA] = Val("code", next)],
             mem |-> mem,
             inside |-> Callee("stub", r[T5], r[T4], next),
             pc |-> pc[t]]

\* The routine is invoked on thread t.
Invoke(t) ==
  /\ status = "running"
  /\ pc[t] = 0
  /\ Len(assembler) > 0
  /\ pc' = [pc EXCEPT ![t] = 1]
  /\ UNCHANGED <<mode, debug, entries, status, call, resolverVars, emitterVars,
                 regs, mem, inside>>

\* Thread t executes its next instruction.
Step(t) ==
  /\ status = "running"
  /\ pc[t] \in 1 .. Len(assembler)
  /\ inside[t] = Managed
  /\ LET after == Execute(t, assembler[pc[t]])
     IN /\ regs' = [regs EXCEPT ![t] = after.regs]
        /\ mem' = after.mem
        /\ inside' = [inside EXCEPT ![t] = after.inside]
        /\ pc' = [pc EXCEPT ![t] = after.pc]
  /\ UNCHANGED <<mode, debug, entries, status, call, resolverVars, emitterVars>>

\* The callee of thread t returns.  It has preserved the callee-saved
\* registers and the stack pointer; what the others hold is unspecified.
Return(t) ==
  /\ status = "running"
  /\ inside[t] # Managed
  /\ regs' = [regs EXCEPT ![t] =
                [r \in Registers |->
                   IF r \in CalleeSavedRoles \cup {SP}
                   THEN regs[t][r] ELSE Unspecified]]
  /\ pc' = [pc EXCEPT ![t] = inside[t].return_to]
  /\ inside' = [inside EXCEPT ![t] = Managed]
  /\ UNCHANGED <<mode, debug, entries, status, call, resolverVars, emitterVars, mem>>

\* Thread t leaves the routine; its caller restores what it had saved.
Leave(t) ==
  /\ status = "running"
  /\ pc[t] = Len(assembler) + 1
  /\ pc' = [pc EXCEPT ![t] = 0]
  /\ regs' = [regs EXCEPT ![t] =
                [r \in Registers |->
                   IF r \in CalleeSavedRoles THEN regs[t][r] ELSE Seeded(t)[r]]]
  /\ UNCHANGED <<mode, debug, entries, status, call, resolverVars, emitterVars,
                 mem, inside>>

\* The routine is compiled before it runs.  Threads exist only if every
\* entry point could be computed for them; the third entry is one of the
\* widest descriptors.
InitRun ==
  /\ Init
  /\ entries[Probe].argument_count = MaxArgs
  /\ mode = "simulator" =>
       \A id \in EntryIds :
         /\ Asserted(ArgumentCountAssert(entries[id]))
         /\ Asserted(LeafBudgetAssert(entries[id]))

\* The argument counts the compiler passes for an entry: the declared one,
\* and one that is not.
RunArgCounts(id) == {entries[id].argument_count, MaxArgs}

NextRun ==
  \/ /\ Len(sites) < MaxRunSites
     /\ \A t \in Threads : pc[t] = 0
     /\ \E id \in EntryIds : \E n \in RunArgCounts(id) : CallInternal(id, n)
  \/ \E t \in Threads : Invoke(t)
  \/ \E t \in Threads : Step(t)
  \/ \E t \in Threads : Return(t)
  \/ \E t \in Threads : Leave(t)

SpecRun == InitRun /\ [][NextRun]_vars

(***************************************************************************)
(* Properties.                                                             *)
(***************************************************************************)
SiteCode(k) == SubSeq(assembler, sites[k].first, sites[k].last)
LastSite == sites[Len(sites)]
VmTag(t) == mem[t][vm_tag_offset]
Called == entries[call.id]
OverBudget(d) ==
  d.is_leaf /\ d.argument_count > (IF d.is_float THEN 2 ELSE 4)

\* C1: while a thread is between the store to its VM-tag slot and the return
\* of the native function of a leaf call, the slot holds the entry address
\* the sequence loaded from the thread's own table slot of that entry, which
\* is the address it jumped to; once the sequence is complete the slot holds
\* kDartTagId.
C1_LeafTagDuringAndAfterCall ==
  \A t \in Threads : \A k \in 1 .. Len(sites) :
    LET s == sites[k]
    IN entries[s.entry].is_leaf =>
         /\ pc[t] \in {s.first + 2, s.first + 3} =>
              /\ VmTag(t) = mem[t][OffsetFromThread(s.entry)]
              /\ VmTag(t) = regs[t][TMP2]
              /\ inside[t] # Managed =>
                   inside[t].kind = "native" /\ inside[t].target = VmTag(t)
         /\ pc[t] = s.last + 1 => VmTag(t) = kDartTagId

\* A thread is in the native function of a leaf call, tagged with its entry.
C1_Witness ==
  \E t \in Threads :
    /\ inside[t].kind = "native"
    /\ Len(sites) > 0
    /\ VmTag(t) = mem[t][OffsetFromThread(sites[1].entry)]
    /\ VmTag(t) # kDartTagId

\* The leaf sequence: the six assembler calls of the leaf path.
LeafCallEmitted ==
  /\ status = "running"
  /\ Len(assembler) = call.before + 6
  /\ LastSite.entry = call.id
  /\ LastSite.argument_count = call.argument_count
  /\ SiteCode(Len(sites)) =
       << lx(TMP2, Address(THR, OffsetFromThread(call.id))),
          sx(TMP2, Address(THR, vm_tag_offset)),
          ReserveAlignedFrameSpace(0),
          jalr(TMP2),
          LoadImmediate(TMP2, kDartTagId),
          sx(TMP2, Address(THR, vm_tag_offset)) >>

\* C2, amended: in a DEBUG build CallInternal for a leaf descriptor with an
\* argument count other than the descriptor's fails the assertion and emits
\* nothing; with the descriptor's argument count, and in a build without
\* DEBUG with any argument count, it emits the leaf sequence.
C2_LeafArityCheckedInDebug ==
  (call.op = "CallInternal" /\ Called.is_leaf) =>
    IF debug /\ call.argument_count # Called.argument_count
    THEN status = "aborted" /\ Len(assembler) = call.before
    ELSE LeafCallEmitted

\* C2, as claimed: CallInternal for a leaf descriptor with an argument count
\* other than the descriptor's fails the assertion and emits nothing; with
\* the descriptor's argument count it emits the leaf sequence.
C2_LeafArityChecked ==
  (call.op = "CallInternal" /\ Called.is_leaf) =>
    IF call.argument_count # Called.argument_count
    THEN status = "aborted" /\ Len(assembler) = call.before
    ELSE /\ status = "running"
         /\ Len(assembler) = call.before + 6
         /\ LastSite.entry = call.id
         /\ SiteCode(Len(sites)) =
              << lx(TMP2, Address(THR, OffsetFromThread(call.id))),
                 sx(TMP2, Address(THR, vm_tag_offset)),
                 ReserveAlignedFrameSpace(0),
                 jalr(TMP2),
                 LoadImmediate(TMP2, kDartTagId),
                 sx(TMP2, Address(THR, vm_tag_offset)) >>

\* A leaf call site with the wrong argument count has stopped the build
\* after an earlier call site was emitted.
C2_Witness ==
  /\ debug
  /\ call.op = "CallInternal" /\ Called.is_leaf
  /\ call.argument_count # Called.argument_count
  /\ status = "aborted" /\ Len(sites) = 1

\* C3, as claimed: CallInternal for a leaf descriptor over its budget (more
\* than 4 arguments, or more than 2 float arguments) fails and emits nothing,
\* whatever the call site's argument count.
C3_OverBudgetEmissionFails ==
  (call.op = "CallInternal" /\ OverBudget(Called)) =>
    status = "aborted" /\ Len(assembler) = call.before

\* C3, amended: CallInternal for a leaf descriptor over its budget fails only
\* in a DEBUG build and only when the call site's argument count differs from
\* the descriptor's; otherwise it emits the leaf sequence.
C3_OverBudgetEmitted ==
  (call.op = "CallInternal" /\ OverBudget(Called)) =>
    IF ~debug \/ call.argument_count = Called.argument_count
    THEN /\ status = "running"
         /\ LastSite.entry = call.id
         /\ LastSite.first = call.before + 1
         /\ LastSite.last = Len(assembler)
         /\ assembler[LastSite.first + 3] = jalr(TMP2)
    ELSE status = "aborted"

\* A call of 5 integer arguments to a leaf entry of 5 has been emitted.
C3_Witness ==
  /\ call.op = "CallInternal" /\ OverBudget(Called)
  /\ ~Called.is_float /\ Called.argument_count = 5
  /\ call.argument_count = 5
  /\ status = "running" /\ Len(assembler) > call.before

\* C4, amended: under the simulator, in a DEBUG build, GetEntryPoint asks
\* for a redirection of a leaf descriptor only within budget; for a leaf
\* descriptor over budget it fails before any redirection of its function is
\* asked for; for a non-leaf descriptor no upper bound holds.  In a build
\* without DEBUG it asks for the redirection of every descriptor.
C4_BudgetAssertedInDebug ==
  (call.op = "GetEntryPoint" /\ mode = "simulator") =>
    IF debug
    THEN /\ (Called.is_leaf /\ call.request # NoRedirection) =>
              Called.argument_count <= (IF Called.is_float THEN 2 ELSE 4)
         /\ OverBudget(Called) =>
              /\ status = "aborted"
              /\ call.request = NoRedirection
              /\ \A h \in 1 .. Len(redirections) :
                   redirections[h].external_function # Called.function
         /\ (~Called.is_leaf /\ Called.argument_count >= 0) =>
              /\ status = "running"
              /\ call.request # NoRedirection
              /\ call.entry.space = "redirection"
              /\ redirections[call.entry.ref] = call.request
    ELSE /\ status = "running"
         /\ call.request.external_function = Called.function
         /\ call.request.argument_count = Called.argument_count
         /\ call.entry.space = "redirection"
         /\ redirections[call.entry.ref] = call.request

\* C4, as claimed: under the simulator, GetEntryPoint asks for a redirection
\* of a leaf descriptor only within budget; for a leaf descriptor over budget
\* it fails before any redirection of its function is asked for; for a
\* non-leaf descriptor no upper bound holds.
C4_BudgetAssertedBeforeRedirection ==
  (call.op = "GetEntryPoint" /\ mode = "simulator") =>
    /\ (Called.is_leaf /\ call.request # NoRedirection) =>
         Called.argument_count <= (IF Called.is_float THEN 2 ELSE 4)
    /\ OverBudget(Called) =>
         /\ status = "aborted"
         /\ call.request = NoRedirection
         /\ \A h \in 1 .. Len(redirections) :
              redirections[h].external_function # Called.function
    /\ (~Called.is_leaf /\ Called.argument_count >= 0) =>
         /\ status = "running"
         /\ call.request # NoRedirection
         /\ call.entry.space = "redirection"
         /\ redirections[call.entry.ref] = call.request

\* The resolution of a leaf descriptor over budget has failed.
C4_Witness ==
  /\ debug
  /\ call.op = "GetEntryPoint" /\ mode = "simulator"
  /\ OverBudget(Called) /\ status = "aborted"

\* C5: under the simulator GetEntryPoint asks for the redirection of
\* (function, call kind, argument count of the descriptor), the call kind
\* being kRuntimeCall for a non-leaf descriptor, kLeafRuntimeCall for a leaf
\* one that is not float and kLeafFloatRuntimeCall for a leaf float one; in
\* normal mode it returns the function pointer.
C5_RedirectionRequest ==
  (call.op = "GetEntryPoint" /\ status = "running") =>
    IF mode = "simulator"
    THEN /\ call.request.external_function = FunctionOf(call.id)
         /\ call.request.argument_count = Called.argument_count
         /\ call.request.call_kind =
              (CASE ~Called.is_leaf -> "kRuntimeCall"
                 [] Called.is_leaf /\ ~Called.is_float -> "kLeafRuntimeCall"
                 [] OTHER -> "kLeafFloatRuntimeCall")
         /\ redirections[call.entry.ref] = call.request
    ELSE call.entry = FunctionOf(call.id) /\ call.request = NoRedirection

\* A non-leaf float descriptor has been redirected as a kRuntimeCall.
C5_Witness ==
  /\ call.op = "GetEntryPoint" /\ mode = "simulator" /\ status = "running"
  /\ ~Called.is_leaf /\ Called.is_float
  /\ call.request.call_kind = kRuntimeCall

\* C6: the call site CallInternal emits for a non-leaf descriptor and an
\* argument count n is the load of the entry's table slot into T5, the load
\* of n into T4 and the transfer to the runtime-call stub, in this order and
\* nothing else; the call sites follow one another in the buffer.
C6_NonLeafSequence ==
  /\ \A k \in 1 .. Len(sites) :
       /\ sites[k].first = (IF k = 1 THEN 1 ELSE sites[k - 1].last + 1)
       /\ ~entries[sites[k].entry].is_leaf =>
            SiteCode(k) =
              << lx(T5, Address(THR, OffsetFromThread(sites[k].entry))),
                 li(T4, sites[k].argument_count),
                 JumpAndLinkToRuntime >>
  /\ Len(sites) > 0 => LastSite.last = Len(assembler)
  /\ Len(sites) = 0 => assembler = << >>
  /\ (call.op = "CallInternal" /\ ~Called.is_leaf) =>
       /\ Len(assembler) = call.before + 3
       /\ LastSite.entry = call.id
       /\ LastSite.argument_count = call.argument_count

\* Scenario A: a call of Alloc with 2 arguments is emitted after another.
C6_Witness ==
  /\ Len(sites) = 2
  /\ call.op = "CallInternal" /\ call.id = Alloc /\ call.argument_count = 2
  /\ SiteCode(2)[2] = li(T4, 2)

\* C7: CallInternal for a non-leaf descriptor never fails, whatever the
\* argument count, and T4 is loaded with the caller's argument count.
C7_NonLeafArityDeferred ==
  (call.op = "CallInternal" /\ ~Called.is_leaf) =>
    /\ status = "running"
    /\ Len(assembler) > call.before
    /\ \E i \in call.before + 1 .. Len(assembler) :
         assembler[i].op = "li" /\ assembler[i].reg = T4
    /\ \A i \in call.before + 1 .. Len(assembler) :
         assembler[i].reg = T4 => assembler[i].imm = IntValue(call.argument_count)

\* A non-leaf call site has been emitted with an argument count that is not
\* the descriptor's.
C7_Witness ==
  /\ call.op = "CallInternal" /\ ~Called.is_leaf /\ status = "running"
  /\ call.argument_count # Called.argument_count
  /\ assembler[Len(assembler) - 1] = li(T4, call.argument_count)

\* Thread t executes an instruction of the routine in this step.
Executes(t) ==
  /\ pc[t] \in 1 .. Len(assembler)
  /\ inside[t] = Managed
  /\ pc'[t] # pc[t] \/ inside'[t] # Managed

\* The call site an instruction index belongs to.
SiteAt(i) == CHOOSE k \in 1 .. Len(sites) : i \in sites[k].first .. sites[k].last

\* Every instruction a thread executes leaves the registers outside
\* scratch(leaf path) or scratch(non-leaf path) as they were.
WritesOnly(leafScratch, nonLeafScratch) ==
  \A t \in Threads :
    Executes(t) =>
      LET scratch == IF entries[sites[SiteAt(pc[t])].entry].is_leaf
                     THEN leafScratch ELSE nonLeafScratch
      IN \A r \in Registers \ scratch : regs'[t][r] = regs[t][r]

\* After a non-leaf call has returned, THR, NULL_REG, WRITE_BARRIER_MASK and
\* DISPATCH_TABLE_REG hold what they held before it.
RolesPreserved ==
  \A t \in Threads : \A k \in 1 .. Len(sites) :
    (~entries[sites[k].entry].is_leaf /\ pc[t] = sites[k].last + 1) =>
      \A r \in {THR, NULL_REG, WRITE_BARRIER_MASK, DISPATCH_TABLE_REG} :
        regs[t][r] = Seeded(t)[r]

\* C8, as claimed: the four role registers survive a non-leaf call, and the
\* emitted instructions write no register but TMP2 and SP (leaf path), T5
\* and T4 (non-leaf path).
C8_WritesScratchAndSPOnly ==
  [][WritesOnly({TMP2, SP}, {T5, T4, SP}) /\ RolesPreserved']_vars

\* C8, amended: the four role registers survive a non-leaf call, and the
\* emitted instructions write no register but TMP2, SP and the link
\* register RA (leaf path), T5, T4 and RA (non-leaf path).
C8_WritesScratchSPAndLinkOnly ==
  [][WritesOnly({TMP2, SP, RA}, {T5, T4, RA}) /\ RolesPreserved']_vars

\* A non-leaf call has returned to a thread: what PP holds is unspecified,
\* THR is the thread's own.
C8_Witness ==
  \E t \in Threads :
    /\ Len(sites) > 0
    /\ ~entries[sites[1].entry].is_leaf
    /\ pc[t] = sites[1].last + 1
    /\ regs[t][PP] = Unspecified
    /\ regs[t][THR] = Val("thread", t)

\* The leaf call thread t is in: a leaf call site whose tag store it has
\* executed and whose tag restore it has not.
InLeafCall(t, k) ==
  /\ entries[sites[k].entry].is_leaf
  /\ pc[t] \in sites[k].first + 2 .. sites[k].first + 5

\* C9: whatever the interleaving of the threads, the VM-tag slot of a thread
\* holds kDartTagId, or the entry address of the leaf call that thread is in.
C9_TagIsThreadLocal ==
  \A t \in Threads :
    \/ VmTag(t) = kDartTagId
    \/ \E k \in 1 .. Len(sites) :
         /\ InLeafCall(t, k)
         /\ VmTag(t) = mem[t][OffsetFromThread(sites[k].entry)]

\* One thread is in the native function of a leaf call while another, having
\* completed the same call, is back under kDartTagId.
C9_Witness ==
  \E t, u \in Threads :
    /\ t # u
    /\ inside[t].kind = "native" /\ VmTag(t) # kDartTagId
    /\ pc[u] = Len(assembler) + 1 /\ VmTag(u) = kDartTagId

\* What a resolved entry point invokes.
Invoked(target) ==
  IF target.space = "redirection"
  THEN redirections[target.ref]
  ELSE Redirection(target, "direct", 0)

Idempotent ==
  \A id \in EntryIds : \A a, b \in targets[id] :
    /\ Invoked(a) = Invoked(b)
    /\ Invoked(a).external_function = FunctionOf(id)

\* C10: all the entry points GetEntryPoint has returned for a descriptor
\* invoke the same function with the same call kind and argument count, and
\* no resolution changes a descriptor.
C10_ResolutionIdempotent ==
  [](Idempotent) /\ [][entries' = entries]_vars

\* An entry has been resolved to two different handles, another entry being
\* resolved too.
C10_Witness ==
  \E id, other \in EntryIds :
    /\ id # other
    /\ Cardinality(targets[id]) >= 2
    /\ targets[other] # {}

====
